---- MODULE Spec2Model ----
(***************************************************************************)
(* Model of Spherique.py: a Verlet particle simulation (class Ball), its   *)
(* grid-based collision solver and step scheduler (class Simulation), the  *)
(* spawn trace ball_spawns.csv, its colour post-process and its replay.    *)
(*                                                                         *)
(* Numbers.  The program computes with IEEE doubles.  The model computes   *)
(* in fixed point: a length is an integer number of 1/SCALE pixels, an     *)
(* acceleration an integer number of 1/SCALE pixels per second squared,    *)
(* and every multiplication by a fraction rounds to the nearest unit       *)
(* (RoundDiv).  Radii are whole pixels.  Random draws (radius, direction)  *)
(* are nondeterministic choices from small sets.                           *)
(***************************************************************************)
EXTENDS Integers, Sequences, FiniteSets, TLC

VARIABLES
    cfg,            \* class Config: the values this run is configured with
    balls,          \* Simulation.balls, a sequence of Ball records
    grid,           \* Simulation.grid: cell -> sequence of indices into balls
    current_step,   \* Simulation.current_step
    input_image,    \* Simulation.input_image is not None
    headless,       \* Simulation.headless
    csv_buffer,     \* csv_buffer of calculate_positions: sequence of lines
    file,           \* contents of ball_spawns.csv: sequence of lines
    lines,          \* lines read by visualize
    idx,            \* idx of visualize
    pc,             \* position of the program
    caller,         \* who called Simulation.update: "calc", "viz" or "test"
    substep,        \* loop variable _ of Simulation.update
    phase_log,      \* history: phases run so far by the current update call
    corrections,    \* history: per pair, corrections applied by the last pass
    overlapping,    \* history: pairs overlapping when the last pass started
    running,        \* running of visualize
    spawned,        \* history: the steps at which the spawn policy created a ball
    fresh           \* history: the ball spawned this step, as spawned, until its first Ball.update

vars == << cfg, balls, grid, current_step, input_image, headless, csv_buffer,
           file, lines, idx, pc, caller, substep, phase_log, corrections,
           overlapping, running, spawned, fresh >>

---------------------------------------------------------------------------
(* Bounds of the model.                                                    *)

SmallWorld == 64        \* WIDTH and HEIGHT of the scaled-down world, pixels
SmallSteps == 3         \* TOTAL_STEPS of the scaled-down run
SmallObjects == 2       \* MAX_OBJECTS of the scaled-down run
SmallScale == 100       \* length units per pixel in the scaled-down world
MaxReplaySteps == 3     \* replay iterations followed before the window closes
ScenarioSteps == 500    \* outer steps of the single-particle scenario
ScenarioScale == 1000000 \* length units per pixel in the scenario

(* Program constants, class Config.                                        *)

WIDTH == 1000
HEIGHT == 1000
GRAVITY_X == 0
GRAVITY_Y == 981
BOUNCE_LOSS_NUM == 9
BOUNCE_LOSS_DEN == 10
COLLISION_DAMPING_NUM == 19
COLLISION_DAMPING_DEN == 20
MIN_RADIUS == 5
MAX_RADIUS == 28
SPAWN_INTERVAL == 1
FIXED_DT_DEN == 60
TOTAL_STEPS == 1000
SUBSTEPS == 8
MAX_OBJECTS == 900
CELL_SIZE == MAX_RADIUS * 2
SPAWN_SPEED == 40

\* math.pi as the fraction 355/113
PI_NUM == 355
PI_DEN == 113

\* Resolution of the unit normal and of the mass ratios in solve_collisions
FRAC == 1000

---------------------------------------------------------------------------
(* Arithmetic.                                                             *)

\* a / b rounded to the nearest integer, b > 0
RoundDiv(a, b) == (2 * a + b) \div (2 * b)

\* int(x) of Python for x given in units: truncation toward zero, in pixels
IntPx(x, scale) == IF x >= 0 THEN x \div scale ELSE -((-x) \div scale)

RECURSIVE SqrtBetween(_, _, _)
SqrtBetween(n, lo, hi) ==
    IF hi - lo <= 1 THEN (IF hi * hi <= n THEN hi ELSE lo)
    ELSE LET mid == (lo + hi) \div 2
         IN IF mid * mid <= n THEN SqrtBetween(n, mid, hi)
                              ELSE SqrtBetween(n, lo, mid)

\* math.sqrt on units: the largest d with d*d <= n, n < 2^30
Sqrt(n) == SqrtBetween(n, 0, 32768)

Vec(x, y) == << x, y >>
VAdd(a, b) == << a[1] + b[1], a[2] + b[2] >>
VSub(a, b) == << a[1] - b[1], a[2] - b[2] >>
\* v * (num/den)
VScale(v, num, den) == << RoundDiv(v[1] * num, den), RoundDiv(v[2] * num, den) >>

---------------------------------------------------------------------------
(* class Config.  DefaultConfig holds the values of the source; SmallConfig *)
(* is the same program in a world small enough to explore exhaustively.    *)

DefaultConfig ==
    [ WIDTH |-> WIDTH, HEIGHT |-> HEIGHT, TOTAL_STEPS |-> TOTAL_STEPS,
      MAX_OBJECTS |-> MAX_OBJECTS, SCALE |-> ScenarioScale ]

SmallConfig ==
    [ WIDTH |-> SmallWorld, HEIGHT |-> SmallWorld, TOTAL_STEPS |-> SmallSteps,
      MAX_OBJECTS |-> SmallObjects, SCALE |-> SmallScale ]

\* a length of p pixels, in units
Px(p) == p * cfg.SCALE

---------------------------------------------------------------------------
(* class Ball.                                                             *)

\* math.pi * radius**2
Mass(radius) == RoundDiv(PI_NUM * radius * radius, PI_DEN)

\* Ball.__init__
Ball(position, radius, step_added, color) ==
    [ position |-> position, old_position |-> position,
      acceleration |-> Vec(0, 0), radius |-> radius, mass |-> Mass(radius),
      step_added |-> step_added, color |-> color ]

\* BallAccelerate adding the force itself, undivided
BallAccelerate_NoMass(b, force) ==
    IF b.mass > 0
    THEN [b EXCEPT !.acceleration = VAdd(@, Vec(Px(force[1]), Px(force[2])))]
    ELSE b

\* Ball.accelerate: force is in pixels per second squared times mass
BallAccelerate(b, force) ==
    IF b.mass > 0
    THEN [b EXCEPT !.acceleration =
            VAdd(@, Vec(RoundDiv(Px(force[1]), b.mass), RoundDiv(Px(force[2]), b.mass)))]
    ELSE b

\* Ball.update with dt = 1/dt_den seconds
BallUpdate(b, dt_den) ==
    LET velocity == VSub(b.position, b.old_position)
        push == Vec(RoundDiv(b.acceleration[1], dt_den * dt_den),
                    RoundDiv(b.acceleration[2], dt_den * dt_den))
    IN [b EXCEPT !.old_position = b.position,
                 !.position = VAdd(b.position, VAdd(velocity, push)),
                 !.acceleration = Vec(0, 0)]

\* ClampAxis keeping the centre, not the circle, inside
ClampAxis_Centre(p, v, radius, limit) ==
    IF p - Px(radius) < 0
    THEN << 0, RoundDiv((-v) * BOUNCE_LOSS_NUM, BOUNCE_LOSS_DEN) >>
    ELSE IF p + Px(radius) > Px(limit)
    THEN << Px(limit), RoundDiv((-v) * BOUNCE_LOSS_NUM, BOUNCE_LOSS_DEN) >>
    ELSE << p, v >>

\* one axis of Ball.apply_constraints: << position, velocity >> on that axis
ClampAxis(p, v, radius, limit) ==
    IF p - Px(radius) < 0
    THEN << Px(radius), RoundDiv((-v) * BOUNCE_LOSS_NUM, BOUNCE_LOSS_DEN) >>
    ELSE IF p + Px(radius) > Px(limit)
    THEN << Px(limit) - Px(radius), RoundDiv((-v) * BOUNCE_LOSS_NUM, BOUNCE_LOSS_DEN) >>
    ELSE << p, v >>

\* BallApplyConstraints damping the velocity only where a wall is hit
BallApplyConstraints_NoDamping(b) ==
    LET velocity == VSub(b.position, b.old_position)
        cx == ClampAxis(b.position[1], velocity[1], b.radius, cfg.WIDTH)
        cy == ClampAxis(b.position[2], velocity[2], b.radius, cfg.HEIGHT)
        position == Vec(cx[1], cy[1])
        bounced == Vec(cx[2], cy[2])
    IN [b EXCEPT !.position = position, !.old_position = VSub(position, bounced)]

\* Ball.apply_constraints
BallApplyConstraints(b) ==
    LET velocity == VSub(b.position, b.old_position)
        cx == ClampAxis(b.position[1], velocity[1], b.radius, cfg.WIDTH)
        cy == ClampAxis(b.position[2], velocity[2], b.radius, cfg.HEIGHT)
        position == Vec(cx[1], cy[1])
        bounced == Vec(cx[2], cy[2])
    IN [b EXCEPT !.position = position,
                 !.old_position =
                    VSub(position, VScale(bounced, COLLISION_DAMPING_NUM, COLLISION_DAMPING_DEN))]

---------------------------------------------------------------------------
(* Simulation: grid and collision solver.                                  *)

\* Simulation.add_ball
AddBall(bs, ball) ==
    IF Len(bs) >= cfg.MAX_OBJECTS THEN Append(Tail(bs), ball) ELSE Append(bs, ball)

\* Simulation.get_cell
GetCell(pos) == << pos[1] \div Px(CELL_SIZE), pos[2] \div Px(CELL_SIZE) >>

\* Simulation.update_grid: each cell maps to the indices of its balls, in order
UpdateGrid(bs) ==
    [ c \in { GetCell(bs[i].position) : i \in 1..Len(bs) } |->
        SelectSeq([i \in 1..Len(bs) |-> i], LAMBDA i : GetCell(bs[i].position) = c) ]

\* self.grid.get(cell, [])
GridGet(g, cell) == IF cell \in DOMAIN g THEN g[cell] ELSE << >>

\* Simulation.get_nearby: everything the generator yields, in order
GetNearby(bs, g, i) ==
    LET c == GetCell(bs[i].position)
        col(dx) == GridGet(g, << c[1] + dx, c[2] - 1 >>)
                   \o GridGet(g, << c[1] + dx, c[2] >>)
                   \o GridGet(g, << c[1] + dx, c[2] + 1 >>)
    IN col(-1) \o col(0) \o col(1)

\* the unordered pair of two ball indices
PairOf(i, j) == IF i < j THEN << i, j >> ELSE << j, i >>
Pairs(n) == { p \in (1..n) \X (1..n) : p[1] < p[2] }

\* delta.length_squared()
LengthSquared(d) == d[1] * d[1] + d[2] * d[2]

\* the test of line 101 on balls a and b
Overlap(a, b) ==
    LET dist_sq == LengthSquared(VSub(a.position, b.position))
        min_d == Px(a.radius + b.radius)
    IN 0 < dist_sq /\ dist_sq < min_d * min_d

\* ResolvePair handling each unordered pair from its first ball only
ResolvePair_Once(st, i, j) ==
    LET b1 == st.balls[i]
        b2 == st.balls[j]
        delta == VSub(b1.position, b2.position)
        dist_sq == LengthSquared(delta)
        min_d == Px(b1.radius + b2.radius)
        dist == Sqrt(dist_sq)
        normal == Vec(RoundDiv(delta[1] * FRAC, dist), RoundDiv(delta[2] * FRAC, dist))
        overlap == RoundDiv(min_d - dist, 2)
        total_mass == b1.mass + b2.mass
        ratio1 == RoundDiv(b2.mass * FRAC, total_mass)
        ratio2 == RoundDiv(b1.mass * FRAC, total_mass)
        sep == VScale(normal, overlap, FRAC)
        move1 == VScale(VScale(sep, ratio1, FRAC), COLLISION_DAMPING_NUM, COLLISION_DAMPING_DEN)
        move2 == VScale(VScale(sep, ratio2, FRAC), COLLISION_DAMPING_NUM, COLLISION_DAMPING_DEN)
    IN IF i >= j THEN st
       ELSE IF 0 < dist_sq /\ dist_sq < min_d * min_d
       THEN [ balls |-> [st.balls EXCEPT ![i].position = VAdd(@, move1),
                                         ![j].position = VSub(@, move2)],
              hits |-> [st.hits EXCEPT ![PairOf(i, j)] = @ + 1] ]
       ELSE st

\* body of the inner loop of solve_collisions for b1 = balls[i], b2 = balls[j];
\* st = [balls, hits], hits counting the corrections applied to each pair
ResolvePair(st, i, j) ==
    LET b1 == st.balls[i]
        b2 == st.balls[j]
        delta == VSub(b1.position, b2.position)
        dist_sq == LengthSquared(delta)
        min_d == Px(b1.radius + b2.radius)
        dist == Sqrt(dist_sq)
        normal == Vec(RoundDiv(delta[1] * FRAC, dist), RoundDiv(delta[2] * FRAC, dist))
        overlap == RoundDiv(min_d - dist, 2)
        total_mass == b1.mass + b2.mass
        ratio1 == RoundDiv(b2.mass * FRAC, total_mass)
        ratio2 == RoundDiv(b1.mass * FRAC, total_mass)
        sep == VScale(normal, overlap, FRAC)
        move1 == VScale(VScale(sep, ratio1, FRAC), COLLISION_DAMPING_NUM, COLLISION_DAMPING_DEN)
        move2 == VScale(VScale(sep, ratio2, FRAC), COLLISION_DAMPING_NUM, COLLISION_DAMPING_DEN)
    IN IF i = j THEN st
       ELSE IF 0 < dist_sq /\ dist_sq < min_d * min_d
       THEN [ balls |-> [st.balls EXCEPT ![i].position = VAdd(@, move1),
                                         ![j].position = VSub(@, move2)],
              hits |-> [st.hits EXCEPT ![PairOf(i, j)] = @ + 1] ]
       ELSE st

\* for b2 in self.get_nearby(b1), from the k-th yielded ball on
RECURSIVE ResolveNear(_, _, _, _)
ResolveNear(st, i, near, k) ==
    IF k > Len(near) THEN st
    ELSE ResolveNear(ResolvePair(st, i, near[k]), i, near, k + 1)

\* for b1 in self.balls, from the i-th ball on
RECURSIVE ResolveFrom(_, _, _)
ResolveFrom(st, g, i) ==
    IF i > Len(st.balls) THEN st
    ELSE ResolveFrom(ResolveNear(st, i, GetNearby(st.balls, g, i), 1), g, i + 1)

\* Simulation.solve_collisions after update_grid
SolvePass(bs, g) ==
    ResolveFrom([ balls |-> bs, hits |-> [p \in Pairs(Len(bs)) |-> 0] ], g, 1)

---------------------------------------------------------------------------
(* Simulation.update: the phases of one substep, in program order.         *)

\* the body with the constraint pass before the collision pass
UpdateBody_Swapped == << "accelerate", "constrain", "collide", "integrate" >>

\* lines 114-117, the body of the substep loop
UpdateBody == << "accelerate", "collide", "constrain", "integrate" >>

\* where control goes after the k-th statement of the body, in substep s
AfterPhase(k, s) ==
    IF k < Len(UpdateBody) THEN UpdateBody[k + 1]
    ELSE IF s + 1 < SUBSTEPS THEN UpdateBody[1]
    ELSE "update_done"

\* position of a phase in the body
PhaseIndex(p) == CHOOSE k \in 1..Len(UpdateBody) : UpdateBody[k] = p

\* sub_dt = dt / SUBSTEPS, as 1/SubDtDen seconds
SubDtDen == FIXED_DT_DEN * SUBSTEPS

\* entry of Simulation.update(Config.FIXED_DT), called by who
CallUpdate(who) ==
    /\ pc' = IF SUBSTEPS > 0 THEN UpdateBody[1] ELSE "update_done"
    /\ caller' = who
    /\ substep' = 0
    /\ phase_log' = << >>

\* the phase at pc has run: advance
PhaseDone ==
    /\ pc' = AfterPhase(PhaseIndex(pc), substep)
    /\ substep' = IF PhaseIndex(pc) = Len(UpdateBody) THEN substep + 1 ELSE substep
    /\ phase_log' = Append(phase_log, pc)

\* for b in self.balls: b.accelerate(Config.GRAVITY)
Accelerate ==
    /\ pc = "accelerate"
    /\ balls' = [i \in 1..Len(balls) |-> BallAccelerate(balls[i], Vec(GRAVITY_X, GRAVITY_Y))]
    /\ PhaseDone
    /\ UNCHANGED << cfg, grid, current_step, input_image, headless, csv_buffer, file,
                    lines, idx, caller, corrections, overlapping, running, spawned, fresh >>

\* self.solve_collisions()
SolveCollisions ==
    /\ pc = "collide"
    /\ LET g == UpdateGrid(balls)
           st == SolvePass(balls, g)
       IN /\ grid' = g
          /\ balls' = st.balls
          /\ corrections' = st.hits
          /\ overlapping' = { p \in Pairs(Len(balls)) : Overlap(balls[p[1]], balls[p[2]]) }
    /\ PhaseDone
    /\ UNCHANGED << cfg, current_step, input_image, headless, csv_buffer, file,
                    lines, idx, caller, running, spawned, fresh >>

\* for b in self.balls: b.apply_constraints()
ApplyConstraints ==
    /\ pc = "constrain"
    /\ balls' = [i \in 1..Len(balls) |-> BallApplyConstraints(balls[i])]
    /\ PhaseDone
    /\ UNCHANGED << cfg, grid, current_step, input_image, headless, csv_buffer, file,
                    lines, idx, caller, corrections, overlapping, running, spawned, fresh >>

\* for b in self.balls: b.update(sub_dt)
Integrate ==
    /\ pc = "integrate"
    /\ balls' = [i \in 1..Len(balls) |-> BallUpdate(balls[i], SubDtDen)]
    /\ fresh' = << >>
    /\ PhaseDone
    /\ UNCHANGED << cfg, grid, current_step, input_image, headless, csv_buffer, file,
                    lines, idx, caller, corrections, overlapping, running, spawned >>

---------------------------------------------------------------------------
(* Simulation.calculate_positions.                                         *)

\* random.uniform(MIN_RADIUS, MAX_RADIUS): the radii drawn, within that range
Radii == { 12, MAX_RADIUS }

\* random.uniform(0, 2*math.pi): the directions drawn, as << 5 cos, 5 sin >>
Angles == { << 5, 0 >>, << -3, -4 >>, << 0, 5 >>, << -4, 3 >> }

\* the random default colour of Ball.__init__
Placeholders == { << 200, 120, 80 >> }

\* v * Config.FIXED_DT for the direction a
SpawnVelocityDt(a) ==
    Vec(RoundDiv(a[1] * SPAWN_SPEED * cfg.SCALE, 5 * FIXED_DT_DEN),
        RoundDiv(a[2] * SPAWN_SPEED * cfg.SCALE, 5 * FIXED_DT_DEN))

\* lines 130-135: the ball created at step with the draws radius, a, color
NewBall(step, radius, a, color) ==
    LET pos == Vec(RoundDiv(Px(cfg.WIDTH), 2), RoundDiv(Px(cfg.HEIGHT), 2))
        b == Ball(pos, radius, step, color)
    IN [b EXCEPT !.old_position = VSub(b.position, SpawnVelocityDt(a))]

\* SpawnDue without the capacity test
SpawnDue_NoCap(step, n) == step % SPAWN_INTERVAL = 0

\* line 129: the spawn condition, n balls being live
SpawnDue(step, n) == step % SPAWN_INTERVAL = 0 /\ n < cfg.MAX_OBJECTS

\* line 137: the record written for ball b
SpawnLine(step, b) ==
    << step, b.position[1], b.position[2], b.radius, b.old_position[1],
       b.old_position[2], b.color[1], b.color[2], b.color[3] >>

\* SpawnBlock appending whenever the step is a spawn step, whatever the live count
SpawnBlock_Unbounded(bs, csv, step, b) ==
    IF step % SPAWN_INTERVAL = 0
    THEN [ balls |-> Append(bs, b), csv |-> Append(csv, SpawnLine(step, b)), did |-> TRUE ]
    ELSE [ balls |-> bs, csv |-> csv, did |-> FALSE ]

\* SpawnBlock adding the ball without writing its record
SpawnBlock_NoRecord(bs, csv, step, b) ==
    IF SpawnDue(step, Len(bs))
    THEN [ balls |-> AddBall(bs, b), csv |-> csv, did |-> TRUE ]
    ELSE [ balls |-> bs, csv |-> csv, did |-> FALSE ]

\* lines 129-137 on the balls bs and the buffer csv, b being the ball created
SpawnBlock(bs, csv, step, b) ==
    IF SpawnDue(step, Len(bs))
    THEN [ balls |-> AddBall(bs, b), csv |-> Append(csv, SpawnLine(step, b)), did |-> TRUE ]
    ELSE [ balls |-> bs, csv |-> csv, did |-> FALSE ]

\* one iteration of the while loop up to the call of update, with a spawn
CalcSpawn ==
    /\ pc = "calc_loop"
    /\ current_step < cfg.TOTAL_STEPS
    /\ \E radius \in Radii, a \in Angles, color \in Placeholders :
         LET b == NewBall(current_step, radius, a, color)
             r == SpawnBlock(balls, csv_buffer, current_step, b)
         IN /\ r.did
            /\ balls' = r.balls
            /\ csv_buffer' = r.csv
            /\ fresh' = << [ index |-> Len(r.balls), position |-> b.position,
                             old_position |-> b.old_position ] >>
    /\ spawned' = Append(spawned, current_step)
    /\ CallUpdate("calc")
    /\ UNCHANGED << cfg, grid, current_step, input_image, headless, file, lines, idx,
                    corrections, overlapping, running >>

\* one iteration of the while loop up to the call of update, without a spawn
CalcNoSpawn ==
    /\ pc = "calc_loop"
    /\ current_step < cfg.TOTAL_STEPS
    /\ ~SpawnDue(current_step, Len(balls))
    /\ CallUpdate("calc")
    /\ UNCHANGED << cfg, balls, grid, current_step, input_image, headless, csv_buffer,
                    file, lines, idx, corrections, overlapping, running, spawned, fresh >>

\* the statement after self.update(Config.FIXED_DT): lines 139 and 178-179,
\* and the return to the loop of the caller
UpdateReturn ==
    /\ pc = "update_done"
    /\ current_step' = current_step + 1
    /\ pc' = CASE caller = "calc" -> "calc_loop"
               [] caller = "viz" -> IF running THEN "viz_loop" ELSE "exit"
               [] OTHER -> "test_loop"
    /\ UNCHANGED << cfg, balls, grid, input_image, headless, csv_buffer, file, lines, idx,
                    caller, substep, phase_log, corrections, overlapping, running,
                    spawned, fresh >>

\* lines 142-144: the loop is over, the trace is written
WriteFile ==
    /\ pc = "calc_loop"
    /\ current_step >= cfg.TOTAL_STEPS
    /\ file' = csv_buffer
    /\ pc' = IF input_image THEN "map_colors" ELSE "calc_done"
    /\ UNCHANGED << cfg, balls, grid, current_step, input_image, headless, csv_buffer,
                    lines, idx, caller, substep, phase_log, corrections, overlapping,
                    running, spawned, fresh >>

---------------------------------------------------------------------------
(* Simulation.map_colors.                                                  *)

\* the resized input image: the colour of pixel (x, y), 0 <= x < WIDTH, 0 <= y < HEIGHT
Image(x, y) == << x % 256, y % 256, (x + y) % 256 >>

\* self.input_image.getpixel((x, y)): a negative coordinate counts from the far
\* edge, a coordinate outside the image raises IndexError
GetPixel(x, y) ==
    LET xx == IF x < 0 THEN cfg.WIDTH + x ELSE x
        yy == IF y < 0 THEN cfg.HEIGHT + y ELSE y
    IN IF xx < 0 \/ xx >= cfg.WIDTH \/ yy < 0 \/ yy >= cfg.HEIGHT
       THEN "IndexError"
       ELSE Image(xx, yy)

\* b placed in the sorted sequence s behind every ball whose key is not larger
RECURSIVE InsertByStep(_, _)
InsertByStep(s, b) ==
    IF s = << >> THEN << b >>
    ELSE IF s[Len(s)].step_added <= b.step_added THEN Append(s, b)
    ELSE Append(InsertByStep(SubSeq(s, 1, Len(s) - 1), b), s[Len(s)])

\* sorted(self.balls, key=lambda x: x.step_added), a stable sort
RECURSIVE SortedByStep(_)
SortedByStep(bs) ==
    IF bs = << >> THEN << >>
    ELSE InsertByStep(SortedByStep(SubSeq(bs, 1, Len(bs) - 1)), bs[Len(bs)])

\* parts[6:9] = [str(r), str(g), str(bb)] on the fields of one line
Recolour(parts, pixel) == SubSeq(parts, 1, 6) \o pixel \o SubSeq(parts, 10, Len(parts))

\* the for loop of map_colors from the i-th line on, out being written so far
RECURSIVE MapLines(_, _, _, _)
MapLines(ls, sorted_balls, i, out) ==
    IF i > Len(ls) \/ i > Len(sorted_balls) THEN [ raised |-> FALSE, out |-> out ]
    ELSE LET b == sorted_balls[i]
             pixel == GetPixel(IntPx(b.position[1], cfg.SCALE), IntPx(b.position[2], cfg.SCALE))
         IN IF pixel = "IndexError" THEN [ raised |-> TRUE, out |-> out ]
            ELSE MapLines(ls, sorted_balls, i + 1, Append(out, Recolour(ls[i], pixel)))

\* map_colors on the file contents ls and the balls bs
MapColorsOf(ls, bs) == MapLines(ls, SortedByStep(bs), 1, << >>)

\* self.map_colors(): the file is rewritten, unless getpixel raised
MapColors ==
    /\ pc = "map_colors"
    /\ LET r == MapColorsOf(file, balls)
       IN IF r.raised
          THEN /\ pc' = "crashed"
               /\ file' = file
          ELSE /\ pc' = "calc_done"
               /\ file' = r.out
    /\ UNCHANGED << cfg, balls, grid, current_step, input_image, headless, csv_buffer,
                    lines, idx, caller, substep, phase_log, corrections, overlapping,
                    running, spawned, fresh >>

---------------------------------------------------------------------------
(* Simulation.run and Simulation.visualize.                                *)

\* run, headless: nothing follows calculate_positions
RunHeadless ==
    /\ pc = "calc_done"
    /\ headless
    /\ pc' = "exit"
    /\ UNCHANGED << cfg, balls, grid, current_step, input_image, headless, csv_buffer,
                    file, lines, idx, caller, substep, phase_log, corrections,
                    overlapping, running, spawned, fresh >>

\* lines 162-165: visualize up to its loop
VisualizeStart ==
    /\ pc = "calc_done"
    /\ ~headless
    /\ balls' = << >>
    /\ current_step' = 0
    /\ lines' = file
    /\ running' = TRUE
    /\ idx' = 0
    /\ pc' = "viz_loop"
    /\ UNCHANGED << cfg, grid, input_image, headless, csv_buffer, file, caller, substep,
                    phase_log, corrections, overlapping, spawned, fresh >>

\* line 171-174: the ball rebuilt from a line of the trace
ReplayBall(line) ==
    LET b == Ball(Vec(line[2], line[3]), line[4], line[1], << line[7], line[8], line[9] >>)
    IN [b EXCEPT !.old_position = Vec(line[5], line[6])]

\* lines 167-177: one iteration of the replay loop up to the call of update;
\* quit says whether a QUIT event was pending
VizIter ==
    /\ pc = "viz_loop"
    /\ \E quit \in BOOLEAN :
         /\ current_step + 1 >= MaxReplaySteps => quit
         /\ running' = ~quit
    /\ IF idx < Len(lines) /\ lines[idx + 1][1] = current_step
       THEN /\ balls' = AddBall(balls, ReplayBall(lines[idx + 1]))
            /\ idx' = idx + 1
       ELSE UNCHANGED << balls, idx >>
    /\ CallUpdate("viz")
    /\ UNCHANGED << cfg, grid, current_step, input_image, headless, csv_buffer, file,
                    lines, corrections, overlapping, spawned, fresh >>

---------------------------------------------------------------------------
(* The program: Simulation(headless).run() in the small world.             *)

Init ==
    /\ cfg = SmallConfig
    /\ balls = << >>
    /\ grid = [c \in {} |-> << >>]
    /\ current_step = 0
    /\ input_image \in BOOLEAN
    /\ headless \in BOOLEAN
    /\ csv_buffer = << >>
    /\ file = << >>
    /\ lines = << >>
    /\ idx = 0
    /\ pc = "calc_loop"
    /\ caller = "calc"
    /\ substep = 0
    /\ phase_log = << >>
    /\ corrections = [p \in {} |-> 0]
    /\ overlapping = {}
    /\ running = TRUE
    /\ spawned = << >>
    /\ fresh = << >>

Next ==
    \/ CalcSpawn
    \/ CalcNoSpawn
    \/ Accelerate
    \/ SolveCollisions
    \/ ApplyConstraints
    \/ Integrate
    \/ UpdateReturn
    \/ WriteFile
    \/ MapColors
    \/ RunHeadless
    \/ VisualizeStart
    \/ VizIter

Spec == Init /\ [][Next]_vars

---------------------------------------------------------------------------
(* The single-particle scenario: Simulation.update called ScenarioSteps    *)
(* times on one ball of radius 10 at rest in the middle of the default     *)
(* world.                                                                  *)

InitScenario ==
    /\ cfg = DefaultConfig
    /\ balls = << Ball(Vec(DefaultConfig.SCALE * 500, DefaultConfig.SCALE * 500), 10, 0,
                       << 200, 120, 80 >>) >>
    /\ grid = [c \in {} |-> << >>]
    /\ current_step = 0
    /\ input_image = FALSE
    /\ headless = TRUE
    /\ csv_buffer = << >>
    /\ file = << >>
    /\ lines = << >>
    /\ idx = 0
    /\ pc = "test_loop"
    /\ caller = "test"
    /\ substep = 0
    /\ phase_log = << >>
    /\ corrections = [p \in {} |-> 0]
    /\ overlapping = {}
    /\ running = TRUE
    /\ spawned = << >>
    /\ fresh = << >>

\* the next call of Simulation.update(Config.FIXED_DT)
ScenarioStep ==
    /\ pc = "test_loop"
    /\ current_step < ScenarioSteps
    /\ CallUpdate("test")
    /\ UNCHANGED << cfg, balls, grid, current_step, input_image, headless, csv_buffer,
                    file, lines, idx, corrections, overlapping, running, spawned, fresh >>

NextScenario ==
    \/ ScenarioStep
    \/ Accelerate
    \/ SolveCollisions
    \/ ApplyConstraints
    \/ Integrate
    \/ UpdateReturn

SpecScenario == InitScenario /\ [][NextScenario]_vars

---------------------------------------------------------------------------
(* Properties.                                                             *)

\* control is inside Simulation.update
InUpdate == pc \in { "accelerate", "collide", "constrain", "integrate", "update_done" }

\* calculate_positions is running or has just ended, its balls still live
InCalc ==
    \/ pc \in { "calc_loop", "map_colors", "calc_done", "crashed" }
    \/ caller = "calc" /\ InUpdate

\* the step_added fields of a sequence of balls
StepsOf(bs) == [i \in 1..Len(bs) |-> bs[i].step_added]

\* s is an initial part of t
IsPrefix(s, t) == Len(s) <= Len(t) /\ SubSeq(t, 1, Len(s)) = s

\* the pixel a ball is drawn at lies inside the image
InImage(b) ==
    LET x == IntPx(b.position[1], cfg.SCALE)
        y == IntPx(b.position[2], cfg.SCALE)
    IN 0 <= x /\ x < cfg.WIDTH /\ 0 <= y /\ y < cfg.HEIGHT

\* the colour getpixel is meant to give for ball b
SampleAt(b) == Image(IntPx(b.position[1], cfg.SCALE), IntPx(b.position[2], cfg.SCALE))

\* ball b lies strictly between the walls on both axes
StrictlyInside(b) ==
    /\ Px(b.radius) < b.position[1] /\ b.position[1] < Px(cfg.WIDTH) - Px(b.radius)
    /\ Px(b.radius) < b.position[2] /\ b.position[2] < Px(cfg.HEIGHT) - Px(b.radius)

(* C1: the number of live particles never exceeds MAX_OBJECTS, during      *)
(* calculate_positions and during the replay alike.                        *)
C1_Capacity == Len(balls) <= cfg.MAX_OBJECTS

\* the replay runs with the collection full
C1_Witness == caller = "viz" /\ pc = "integrate" /\ Len(balls) = cfg.MAX_OBJECTS

(* C2: every call of Simulation.update runs SUBSTEPS substeps, each made   *)
(* of the phases accelerate, collide, constrain, integrate in that order,  *)
(* each phase covering every live particle: gravity has been accumulated   *)
(* exactly once on every particle when the collision pass starts and is    *)
(* reset by the integration, and the collision pass works on a grid that   *)
(* holds every live particle once.                                         *)
C2_PhaseOrder ==
    LET order == << "accelerate", "collide", "constrain", "integrate" >>
        n == Len(phase_log)
        once(b) == Vec(RoundDiv(Px(GRAVITY_X), b.mass), RoundDiv(Px(GRAVITY_Y), b.mass))
    IN InUpdate =>
         /\ n <= 4 * SUBSTEPS
         /\ \A k \in 1..n : phase_log[k] = order[((k - 1) % 4) + 1]
         /\ substep = n \div 4
         /\ pc = "update_done" <=> n = 4 * SUBSTEPS
         /\ pc # "update_done" => pc = order[(n % 4) + 1]
         /\ pc \in { "accelerate", "update_done" } =>
              \A i \in 1..Len(balls) : balls[i].acceleration = Vec(0, 0)
         /\ pc \in { "collide", "constrain", "integrate" } =>
              \A i \in 1..Len(balls) : balls[i].acceleration = once(balls[i])
         /\ pc = "constrain" =>
              \A i \in 1..Len(balls) :
                 Cardinality({ c \in DOMAIN grid : \E k \in 1..Len(grid[c]) : grid[c][k] = i }) = 1

\* an update call has completed on a collection of two or more balls
C2_Witness == pc = "update_done" /\ Len(phase_log) = 4 * SUBSTEPS /\ Len(balls) >= 2

(* C3: throughout calculate_positions the trace holds one record per ball  *)
(* spawned so far, in spawn order, with non-decreasing step fields; a      *)
(* record is appended exactly when a ball is spawned, it describes that    *)
(* ball as spawned, and no record is changed or removed afterwards.        *)
C3_TraceRecords ==
    /\ [](/\ Len(csv_buffer) = Len(spawned)
          /\ \A i \in 1..Len(csv_buffer) : csv_buffer[i][1] = spawned[i]
          /\ \A i \in 1..(Len(csv_buffer) - 1) : csv_buffer[i][1] <= csv_buffer[i + 1][1])
    /\ [][/\ IsPrefix(csv_buffer, csv_buffer')
          /\ Len(csv_buffer') <= Len(csv_buffer) + 1
          /\ (csv_buffer' # csv_buffer) <=> (spawned' # spawned)
          /\ csv_buffer' # csv_buffer =>
               LET b == balls'[Len(balls')]
               IN csv_buffer'[Len(csv_buffer')] =
                    << current_step, b.position[1], b.position[2], b.radius,
                       b.old_position[1], b.old_position[2],
                       b.color[1], b.color[2], b.color[3] >>]_vars

\* a step without a spawn has been run after two spawns
C3_Witness ==
    /\ caller = "calc" /\ pc = "update_done"
    /\ Len(csv_buffer) = 2 /\ current_step >= 2 /\ Len(spawned) = 2

(* C4: with the colour source available, once calculate_positions is over  *)
(* the trace file has as many records as were written, each with its       *)
(* non-colour fields unchanged and with the colour sampled at the end      *)
(* position of the ball of the same rank (the placeholder where that       *)
(* position is outside the image).                                         *)
C4_RewrittenTrace ==
    (input_image /\ pc \in { "calc_done", "crashed" }) =>
        /\ Len(file) = Len(csv_buffer)
        /\ \A i \in 1..Len(file) :
             /\ SubSeq(file[i], 1, 6) = SubSeq(csv_buffer[i], 1, 6)
             /\ SubSeq(file[i], 7, 9) =
                  IF InImage(balls[i]) THEN SampleAt(balls[i]) ELSE SubSeq(csv_buffer[i], 7, 9)

(* C5: the colour post-process never ends in an error; without a colour    *)
(* source the trace is left as written, and the record of a ball whose     *)
(* end position is outside the image keeps its placeholder colour.         *)
C5_NeverAnError ==
    /\ pc # "crashed"
    /\ pc = "calc_done" =>
         /\ ~input_image => file = csv_buffer
         /\ \A i \in 1..Len(file) :
              ~InImage(balls[i]) => SubSeq(file[i], 7, 9) = SubSeq(csv_buffer[i], 7, 9)

(* C6, as claimed: after ScenarioSteps steps the single particle rests     *)
(* with its centre at x = 500, y = HEIGHT - radius = 990.                  *)
C6_RestsOnFloor ==
    (pc = "test_loop" /\ current_step = ScenarioSteps) =>
        balls[1].position = Vec(Px(500), Px(cfg.HEIGHT) - Px(balls[1].radius))

(* C6, amended: after ScenarioSteps steps the single particle is at        *)
(* x = 500, has fallen between one and two pixels (501 < y < 502) and is   *)
(* still falling.                                                          *)
C6_BarelyFalls ==
    (pc = "test_loop" /\ current_step = ScenarioSteps) =>
        /\ balls[1].position[1] = Px(500)
        /\ Px(501) < balls[1].position[2] /\ balls[1].position[2] < Px(502)
        /\ balls[1].position[2] > balls[1].old_position[2]

\* the scenario has run all its steps
C6_Witness == pc = "test_loop" /\ current_step = ScenarioSteps /\ Len(balls) = 1

(* C7: right after the constraint pass every particle's circle lies        *)
(* within the world on both axes.                                          *)
C7_Containment ==
    pc = "integrate" =>
        \A i \in 1..Len(balls) :
            /\ Px(balls[i].radius) <= balls[i].position[1]
            /\ balls[i].position[1] <= Px(cfg.WIDTH) - Px(balls[i].radius)
            /\ Px(balls[i].radius) <= balls[i].position[2]
            /\ balls[i].position[2] <= Px(cfg.HEIGHT) - Px(balls[i].radius)

\* the constraint pass has put a ball on a wall after a pass that moved balls
C7_Witness ==
    /\ pc = "integrate"
    /\ \E p \in DOMAIN corrections : corrections[p] > 0
    /\ \E i \in 1..Len(balls) :
          /\ balls[i].position[1] = Px(cfg.WIDTH) - Px(balls[i].radius)
          /\ balls[i].old_position[1] # balls[i].position[1]

(* C8, as claimed: the velocity position - old_position that the first     *)
(* Ball.update of a spawned ball uses is the spawn-time v * FIXED_DT.      *)
C8_ExactInitialVelocity ==
    (pc = "integrate" /\ fresh # << >>) =>
        LET b == balls[fresh[1].index]
        IN VSub(b.position, b.old_position) = VSub(fresh[1].position, fresh[1].old_position)

(* C8, amended: when the constraint pass of its first substep does not     *)
(* clamp it, the velocity the first Ball.update of a spawned ball uses is  *)
(* COLLISION_DAMPING times (position after the collision pass minus the    *)
(* spawn-time old_position): 0.95 * v * FIXED_DT for a ball the collision  *)
(* pass did not move.                                                      *)
C8_DampedInitialVelocity ==
    (pc = "integrate" /\ fresh # << >>) =>
        LET b == balls[fresh[1].index]
            v_dt == VSub(fresh[1].position, fresh[1].old_position)
        IN StrictlyInside(b) =>
             /\ VSub(b.position, b.old_position) =
                  VScale(VSub(b.position, fresh[1].old_position),
                         COLLISION_DAMPING_NUM, COLLISION_DAMPING_DEN)
             /\ b.position = fresh[1].position =>
                  VSub(b.position, b.old_position) =
                     VScale(v_dt, COLLISION_DAMPING_NUM, COLLISION_DAMPING_DEN)

\* a spawned ball that no collision moved is about to be integrated for the first time
C8_Witness ==
    /\ pc = "integrate" /\ fresh # << >>
    /\ LET b == balls[fresh[1].index]
       IN /\ StrictlyInside(b)
          /\ b.position = fresh[1].position
          /\ VSub(b.position, b.old_position) # VSub(fresh[1].position, fresh[1].old_position)

(* C9, as claimed: in one collision pass every pair that overlaps is       *)
(* corrected exactly once.                                                 *)
C9_ResolvedOnce ==
    pc = "constrain" => \A p \in overlapping : corrections[p] = 1

(* C9, amended: a pass visits every pair from both sides and corrects it   *)
(* at each visit that finds it overlapping, so a pair is corrected at      *)
(* most twice in a pass; when only two particles are live, a pair that     *)
(* overlaps at the start of the pass is corrected at least once, and       *)
(* twice if it still overlaps at the end.                                  *)
C9_ResolvedFromBothSides ==
    pc = "constrain" =>
        /\ \A p \in DOMAIN corrections : corrections[p] <= 2
        /\ Len(balls) = 2 =>
             \A p \in overlapping :
                /\ corrections[p] >= 1
                /\ Overlap(balls[p[1]], balls[p[2]]) => corrections[p] = 2

\* a pass has corrected an overlapping pair twice
C9_Witness ==
    pc = "constrain" /\ \E p \in overlapping : corrections[p] = 2

(* C10: during calculate_positions add_ball never evicts: the live balls   *)
(* only ever get a new last element, their step_added fields increase      *)
(* strictly, there are as many of them as trace records, and map_colors    *)
(* finds as many balls as lines in the file.                               *)
C10_NoEviction ==
    /\ [](InCalc =>
            /\ Len(balls) = Len(csv_buffer)
            /\ StepsOf(balls) = spawned
            /\ \A i \in 1..(Len(balls) - 1) : balls[i].step_added < balls[i + 1].step_added
            /\ pc = "map_colors" => Len(file) = Len(balls))
    /\ [][(InCalc /\ InCalc') => IsPrefix(StepsOf(balls), StepsOf(balls'))]_vars

\* map_colors is entered with the collection at capacity
C10_Witness ==
    pc = "map_colors" /\ Len(balls) = cfg.MAX_OBJECTS /\ Len(file) = Len(balls)

====
